---- MODULE Spec2Model ----
(***************************************************************************)
(* Model of src/challenge.ts: processDataDump and the streaming batch      *)
(* loader processCSV.                                                      *)
(*                                                                         *)
(* processCSV registers three callbacks on a fast-csv parser stream (a     *)
(* Node.js object-mode Transform).  The stream is the environment of the   *)
(* callbacks; it follows the Node.js Readable contract:                    *)
(*   - the parser turns file chunks into rows and pushes them into the     *)
(*     readable side whether or not the consumer is paused (ParserPush);   *)
(*   - a 'data' event is emitted only while the stream is flowing;         *)
(*     pause() takes effect synchronously, resume() restarts the flow;     *)
(*   - 'end' is emitted only by a read of a flowing, ended, drained        *)
(*     stream, and at most once;                                           *)
(*   - an error raised by the parser destroys the stream: 'error' is       *)
(*     emitted and neither 'data' nor 'end' follows.                       *)
(* An 'error' event of a stream without an 'error' listener is thrown as   *)
(* an uncaught exception, which ends the process; pipe() forwards no error *)
(* from a stream to the next.                                              *)
(* An async callback runs up to its first await in the event that calls    *)
(* it; the rest runs when the awaited insert settles.  A rejection of the  *)
(* promise of an async callback is handled by nobody.                      *)
(***************************************************************************)
EXTENDS Integers, Sequences, FiniteSets, TLC

\* Bounds of the model.
MaxRows == 3
MaxBatch == 2

\* The two loads of processDataDump: 1 = organizations, 2 = customers.
Loads == {1, 2}

\* The tables of setupTables, in the order it handles them.
TableOrder == <<"organizations", "customers">>
Tables == {TableOrder[k] : k \in 1..Len(TableOrder)}

VARIABLES
  pc,          \* position of processDataDump
  dlPromise,   \* state of the promise returned by downloadFile
  dlResponse,  \* the response callback of https.get has run
  dlFault,     \* the failure the download met, "none" when it met none
  exPromise,   \* state of the promise returned by extractTarGz
  exFault,     \* the pipeline stage of extractTarGz that failed, or "none"
  tables,      \* the tables that exist in the storage target
  priorRows,   \* per table: rows it held before this run's loads
  setupPc,     \* position of setupTables
  setupTable,  \* index in TableOrder of the table setupTables is at
  setupRuns,   \* number of invocations of setupTables
  createCalls, \* per table: number of createTable calls issued
  dbOpen,      \* createDatabase has returned a connection
  dbDestroyed, \* db.destroy() has been called
  batchSize,   \* the batch capacity handed to both processCSV calls
  nRows,       \* per load: number of well-formed rows at the head of the source
  malformed,   \* per load: a malformed row follows the well-formed ones
  started,     \* per load: processCSV has been called
  parsed,      \* per load: rows the parser has pushed to the readable side
  delivered,   \* per load: rows handed to the 'data' callback
  ended,       \* per load: the parser has pushed end-of-stream
  endEmitted,  \* per load: 'end' has been emitted
  errored,     \* per load: the stream was destroyed with a parse error
  flowing,     \* per load: the readable side is in flowing mode
  batch,       \* per load: the accumulator array
  inFlight,    \* bulk inserts called and not yet settled
  issued,      \* per load: number of insertBatch calls made
  inserted,    \* per load: the batches persisted, in completion order
  failed,      \* per load: number of bulk inserts that failed
  promise,     \* per load: state of the promise returned by processCSV
  unhandled,   \* an async callback's promise was rejected
  crashed      \* the runtime ended the process: an uncaught exception, or
               \* the unhandled rejection

vars == <<pc, dlPromise, dlResponse, dlFault, exPromise, exFault,
          tables, priorRows, setupPc, setupTable, setupRuns, createCalls,
          dbOpen, dbDestroyed, batchSize, nRows, malformed, started,
          parsed, delivered, ended, endEmitted, errored, flowing, batch,
          inFlight, issued, inserted, failed, promise, unhandled, crashed>>

fetchVars  == <<dlPromise, dlResponse, dlFault, exPromise, exFault>>
schemaVars == <<tables, priorRows, setupPc, setupTable, setupRuns,
                createCalls>>
stageVars  == <<fetchVars, schemaVars>>
orchVars   == <<pc, dbOpen, dbDestroyed, stageVars>>
sourceVars == <<batchSize, nRows, malformed>>
streamVars == <<parsed, delivered, ended, endEmitted, errored, flowing>>

----------------------------------------------------------------------------
\* Helpers.

RECURSIVE Flatten(_)
Flatten(ss) == IF ss = <<>> THEN <<>> ELSE Head(ss) \o Flatten(Tail(ss))

Ceil(a, b) == (a + b - 1) \div b

InFlightOf(l) == {i \in inFlight : i.load = l}

Running == ~crashed

----------------------------------------------------------------------------
Init ==
  /\ pc = "download"
  /\ dlPromise = "none"
  /\ dlResponse = FALSE
  /\ dlFault = "none"
  /\ exPromise = "none"
  /\ exFault = "none"
  /\ tables \in SUBSET Tables
  /\ priorRows = [t \in Tables |-> 0]
  /\ setupPc = "idle"
  /\ setupTable = 1
  /\ setupRuns = 0
  /\ createCalls = [t \in Tables |-> 0]
  /\ dbOpen = FALSE
  /\ dbDestroyed = FALSE
  /\ batchSize \in 1..MaxBatch
  /\ nRows \in [Loads -> 0..MaxRows]
  /\ malformed \in [Loads -> BOOLEAN]
  /\ started = [l \in Loads |-> FALSE]
  /\ parsed = [l \in Loads |-> 0]
  /\ delivered = [l \in Loads |-> 0]
  /\ ended = [l \in Loads |-> FALSE]
  /\ endEmitted = [l \in Loads |-> FALSE]
  /\ errored = [l \in Loads |-> FALSE]
  /\ flowing = [l \in Loads |-> FALSE]
  /\ batch = [l \in Loads |-> <<>>]
  /\ inFlight = {}
  /\ issued = [l \in Loads |-> 0]
  /\ inserted = [l \in Loads |-> <<>>]
  /\ failed = [l \in Loads |-> 0]
  /\ promise = [l \in Loads |-> "none"]
  /\ unhandled = FALSE
  /\ crashed = FALSE

----------------------------------------------------------------------------
\* The promise returned by processCSV (line 117): settled at most once.

Resolve(l) ==
  promise' = [promise EXCEPT ![l] = IF @ = "pending" THEN "resolved" ELSE @]

Reject(l) ==
  promise' = [promise EXCEPT ![l] = IF @ = "pending" THEN "rejected" ELSE @]

----------------------------------------------------------------------------
\* insertBatch (lines 106-110).

\* The call: db.batchInsert splits the array into chunks of batchSize rows
\* when it is called, so the rows written are the rows of the array at the
\* call.  by names the callback that awaits the insert.
InsertBatchCall(l, by, rows) ==
  /\ inFlight' = inFlight \cup
       {[load |-> l, by |-> by, rows |-> rows, seq |-> issued[l] + 1]}
  /\ issued' = [issued EXCEPT ![l] = @ + 1]

\* insertBatch without its line 109.
InsertBatchReturnNoClear(l) ==
  UNCHANGED batch

\* Line 109, after the awaited batchInsert succeeded: batch.length = 0.
InsertBatchReturn(l) ==
  batch' = [batch EXCEPT ![l] = <<>>]

----------------------------------------------------------------------------
\* The callbacks of processCSV.

\* The 'data' callback without readStream.pause() (line 124).
DataHandlerNoPause(l, row) ==
  LET b == Append(batch[l], row) IN
  /\ batch' = [batch EXCEPT ![l] = b]
  /\ IF Len(b) >= batchSize
     THEN /\ UNCHANGED flowing
          /\ InsertBatchCall(l, "data", b)
     ELSE UNCHANGED <<flowing, inFlight, issued>>

\* The 'data' callback with > for >= at line 123.
DataHandlerOffByOne(l, row) ==
  LET b == Append(batch[l], row) IN
  /\ batch' = [batch EXCEPT ![l] = b]
  /\ IF Len(b) > batchSize
     THEN /\ flowing' = [flowing EXCEPT ![l] = FALSE]
          /\ InsertBatchCall(l, "data", b)
     ELSE UNCHANGED <<flowing, inFlight, issued>>

\* The 'data' callback with unshift for push at line 121.
DataHandlerPrepend(l, row) ==
  LET b == <<row>> \o batch[l] IN
  /\ batch' = [batch EXCEPT ![l] = b]
  /\ IF Len(b) >= batchSize
     THEN /\ flowing' = [flowing EXCEPT ![l] = FALSE]
          /\ InsertBatchCall(l, "data", b)
     ELSE UNCHANGED <<flowing, inFlight, issued>>

\* 'data' callback, lines 120-125, up to its await.
DataHandler(l, row) ==
  LET b == Append(batch[l], row) IN
  /\ batch' = [batch EXCEPT ![l] = b]
  /\ IF Len(b) >= batchSize
     THEN /\ flowing' = [flowing EXCEPT ![l] = FALSE]
          /\ InsertBatchCall(l, "data", b)
     ELSE UNCHANGED <<flowing, inFlight, issued>>

\* 'data' callback, line 126, after its await returned: readStream.resume().
DataHandlerResume(l) ==
  flowing' = [flowing EXCEPT ![l] = TRUE]

\* The 'end' callback without the flush of lines 131-133.
EndHandlerNoFlush(l) ==
  /\ Resolve(l)
  /\ UNCHANGED <<inFlight, issued>>

\* The 'end' callback without the await at line 132.
EndHandlerNoAwait(l) ==
  /\ Resolve(l)
  /\ IF Len(batch[l]) > 0
     THEN InsertBatchCall(l, "end", batch[l])
     ELSE UNCHANGED <<inFlight, issued>>

\* The 'end' callback without the test of line 131.
EndHandlerAlwaysFlush(l) ==
  /\ InsertBatchCall(l, "end", batch[l])
  /\ UNCHANGED promise

\* 'end' callback, lines 129-134, up to its await (or to its end when the
\* accumulator is empty).
EndHandler(l) ==
  IF Len(batch[l]) > 0
  THEN /\ InsertBatchCall(l, "end", batch[l])
       /\ UNCHANGED promise
  ELSE /\ Resolve(l)
       /\ UNCHANGED <<inFlight, issued>>

\* 'end' callback, line 134, after its await returned: resolve().
EndHandlerResume(l) ==
  Resolve(l)

\* processCSV without line 136.
ErrorHandlerMissing(l) ==
  UNCHANGED promise

\* 'error' callback, line 136: reject.
ErrorHandler(l) ==
  Reject(l)

----------------------------------------------------------------------------
\* The parser stream of one load (line 115) and the events it emits.

\* The parser pushes the next well-formed row to the readable side.
ParserPush(l) ==
  /\ Running /\ started[l] /\ ~errored[l] /\ ~ended[l]
  /\ parsed[l] < nRows[l]
  /\ parsed' = [parsed EXCEPT ![l] = @ + 1]
  /\ UNCHANGED <<orchVars, sourceVars, started, delivered, ended, endEmitted,
                 errored, flowing, batch, inFlight, issued, inserted, failed,
                 promise, unhandled, crashed>>

\* The parser reaches the end of a well-formed source.
ParserEnd(l) ==
  /\ Running /\ started[l] /\ ~errored[l] /\ ~ended[l]
  /\ parsed[l] = nRows[l] /\ ~malformed[l]
  /\ ended' = [ended EXCEPT ![l] = TRUE]
  /\ UNCHANGED <<orchVars, sourceVars, started, parsed, delivered, endEmitted,
                 errored, flowing, batch, inFlight, issued, inserted, failed,
                 promise, unhandled, crashed>>

\* The file stream under the parser (line 115) fails to open or read the
\* file.  It has no 'error' listener (line 136 listens to the parser) and
\* pipe() forwards no error: the event is thrown as an uncaught exception.
FileReadError(l) ==
  /\ Running /\ started[l] /\ ~errored[l] /\ ~ended[l]
  /\ crashed' = TRUE
  /\ UNCHANGED <<orchVars, sourceVars, started, streamVars, batch, inFlight,
                 issued, inserted, failed, promise, unhandled>>

\* The parser reaches the malformed row: the stream is destroyed and 'error'
\* is emitted.
ParserError(l) ==
  /\ Running /\ started[l] /\ ~errored[l] /\ ~ended[l]
  /\ parsed[l] = nRows[l] /\ malformed[l]
  /\ errored' = [errored EXCEPT ![l] = TRUE]
  /\ ErrorHandler(l)
  /\ UNCHANGED <<orchVars, sourceVars, started, parsed, delivered, ended,
                 endEmitted, flowing, batch, inFlight, issued, inserted,
                 failed, unhandled, crashed>>

\* The flowing stream emits 'data' with the next buffered row.  Rows are
\* named by their position in the source.
EmitData(l) ==
  /\ Running /\ started[l] /\ ~errored[l]
  /\ flowing[l]
  /\ delivered[l] < parsed[l]
  /\ delivered' = [delivered EXCEPT ![l] = @ + 1]
  /\ DataHandler(l, delivered[l] + 1)
  /\ UNCHANGED <<orchVars, sourceVars, started, parsed, ended, endEmitted,
                 errored, inserted, failed, promise, unhandled, crashed>>

\* The flowing, drained, ended stream emits 'end'.
EmitEnd(l) ==
  /\ Running /\ started[l] /\ ~errored[l]
  /\ flowing[l]
  /\ ended[l] /\ delivered[l] = parsed[l] /\ ~endEmitted[l]
  /\ endEmitted' = [endEmitted EXCEPT ![l] = TRUE]
  /\ EndHandler(l)
  /\ UNCHANGED <<orchVars, sourceVars, started, parsed, delivered, ended,
                 errored, flowing, batch, inserted, failed, unhandled,
                 crashed>>

----------------------------------------------------------------------------
\* Settling of a bulk insert (line 107) and the continuation of the callback
\* that awaits it.

\* db.batchInsert succeeds: the rows are persisted, insertBatch clears the
\* array and returns, and the awaiting callback runs on.
InsertBatchResolve(i) ==
  /\ Running /\ i \in inFlight
  /\ inFlight' = inFlight \ {i}
  /\ inserted' = [inserted EXCEPT ![i.load] = Append(@, i.rows)]
  /\ InsertBatchReturn(i.load)
  /\ IF i.by = "data"
     THEN DataHandlerResume(i.load) /\ UNCHANGED promise
     ELSE EndHandlerResume(i.load) /\ UNCHANGED flowing
  /\ UNCHANGED <<orchVars, sourceVars, started, parsed, delivered, ended,
                 endEmitted, errored, issued, failed, unhandled, crashed>>

\* A failed db.batchInsert whose error is swallowed: the callback runs on.
InsertBatchRejectSwallowed(i) ==
  /\ Running /\ i \in inFlight
  /\ inFlight' = inFlight \ {i}
  /\ failed' = [failed EXCEPT ![i.load] = @ + 1]
  /\ InsertBatchReturn(i.load)
  /\ IF i.by = "data"
     THEN DataHandlerResume(i.load) /\ UNCHANGED promise
     ELSE EndHandlerResume(i.load) /\ UNCHANGED flowing
  /\ UNCHANGED <<orchVars, sourceVars, started, parsed, delivered, ended,
                 endEmitted, errored, issued, inserted, unhandled, crashed>>

\* db.batchInsert fails: insertBatch throws at line 107 and so does the
\* awaiting callback at line 125 or 132.  Nothing catches it: the array is
\* not cleared, resume() or resolve() never runs, nobody calls reject.
InsertBatchReject(i) ==
  /\ Running /\ i \in inFlight
  /\ inFlight' = inFlight \ {i}
  /\ failed' = [failed EXCEPT ![i.load] = @ + 1]
  /\ unhandled' = TRUE
  /\ UNCHANGED <<orchVars, sourceVars, started, streamVars, batch, issued,
                 inserted, promise, crashed>>

\* A runtime that treats an unhandled rejection as fatal ends the process;
\* one that only warns carries on.
UnhandledRejectionExit ==
  /\ unhandled /\ ~crashed
  /\ crashed' = TRUE
  /\ UNCHANGED <<orchVars, sourceVars, started, streamVars, batch, inFlight,
                 issued, inserted, failed, promise, unhandled>>

----------------------------------------------------------------------------
\* processDataDump (lines 141-159).

CallPc(l)  == IF l = 1 THEN "processCSV1" ELSE "processCSV2"
AwaitPc(l) == IF l = 1 THEN "await1" ELSE "await2"
AfterPc(l) == IF l = 1 THEN "processCSV2" ELSE "destroy"

loadVars == <<started, streamVars, batch, inFlight, issued, inserted, failed,
              promise, unhandled, crashed>>

\* Line 149, the call of downloadFile (lines 16-20): the write stream is
\* created and the GET request is issued.
DownloadFile ==
  /\ Running /\ pc = "download" /\ dlPromise = "none"
  /\ dlPromise' = "pending"
  /\ UNCHANGED <<pc, dlResponse, dlFault, exPromise, exFault, schemaVars, dbOpen,
                 dbDestroyed, sourceVars, loadVars>>

\* The connection cannot be established: the request emits 'error', whose
\* listener (line 29) is reject.
DownloadRequestError ==
  /\ Running /\ dlPromise = "pending" /\ dlFault = "none" /\ ~dlResponse
  /\ dlFault' = "connect"
  /\ dlPromise' = "rejected"
  /\ UNCHANGED <<pc, dlResponse, exPromise, exFault, schemaVars, dbOpen, dbDestroyed,
                 sourceVars, loadVars>>

\* The response arrives: the callback of lines 20-27 pipes it into the write
\* stream and only now registers the 'finish' and 'error' listeners of the
\* write stream.
DownloadResponse ==
  /\ Running /\ dlPromise = "pending" /\ dlFault = "none" /\ ~dlResponse
  /\ dlResponse' = TRUE
  /\ UNCHANGED <<pc, dlPromise, dlFault, exPromise, exFault, schemaVars, dbOpen,
                 dbDestroyed, sourceVars, loadVars>>

\* The connection drops while the body is being transferred.  A socket
\* error is emitted on the request (line 29: reject).  A premature close is
\* reported on the response only, which has no listener and which pipe()
\* does not watch: the write stream is never ended and nothing settles the
\* promise.
DownloadDrop(onRequest) ==
  /\ Running /\ dlPromise = "pending" /\ dlFault = "none" /\ dlResponse
  /\ dlFault' = "drop"
  /\ dlPromise' = IF onRequest THEN "rejected" ELSE dlPromise
  /\ UNCHANGED <<pc, dlResponse, exPromise, exFault, schemaVars, dbOpen, dbDestroyed,
                 sourceVars, loadVars>>

\* The destination cannot be written: the write stream emits 'error'.
\* After the response arrived the listener of line 26 rejects; before, the
\* event has no listener and is thrown as an uncaught exception.
DownloadWriteError ==
  /\ Running /\ dlPromise = "pending" /\ dlFault = "none"
  /\ dlFault' = "write"
  /\ IF dlResponse
     THEN dlPromise' = "rejected" /\ UNCHANGED crashed
     ELSE crashed' = TRUE /\ UNCHANGED dlPromise
  /\ UNCHANGED <<pc, dlResponse, exPromise, exFault, schemaVars, dbOpen, dbDestroyed,
                 sourceVars, started, streamVars, batch, inFlight, issued,
                 inserted, failed, promise, unhandled>>

\* The body was piped and flushed: the write stream emits 'finish' (line 24).
DownloadFinish ==
  /\ Running /\ dlPromise = "pending" /\ dlFault = "none" /\ dlResponse
  /\ dlPromise' = "resolved"
  /\ UNCHANGED <<pc, dlResponse, dlFault, exPromise, exFault, schemaVars, dbOpen,
                 dbDestroyed, sourceVars, loadVars>>

\* Line 149, the await.
AwaitDownloadFile ==
  /\ Running /\ pc = "download"
  /\ dlPromise \in {"resolved", "rejected"}
  /\ pc' = IF dlPromise = "resolved" THEN "extract" ELSE "failed"
  /\ UNCHANGED <<stageVars, dbOpen, dbDestroyed, sourceVars, loadVars>>

\* The stages of the pipeline of extractTarGz (lines 37-41).
ExtractStages == {"read", "gunzip", "tar"}

\* Line 150, the call of extractTarGz (lines 34-45): the three streams are
\* piped and 'finish' and 'error' are listened to on the last one only.
ExtractTarGz ==
  /\ Running /\ pc = "extract" /\ exPromise = "none"
  /\ exPromise' = "pending"
  /\ UNCHANGED <<pc, dlPromise, dlResponse, dlFault, exFault, schemaVars, dbOpen,
                 dbDestroyed, sourceVars, loadVars>>

\* A stage of the pipeline emits 'error'.  The tar stream has the listener
\* of line 45 (reject); the file stream and the gunzip stream have none,
\* pipe() forwards no error, and the event is thrown as an uncaught
\* exception.
ExtractStageError(stage) ==
  /\ Running /\ exPromise = "pending" /\ exFault = "none"
  /\ exFault' = stage
  /\ IF stage = "tar"
     THEN exPromise' = "rejected" /\ UNCHANGED crashed
     ELSE crashed' = TRUE /\ UNCHANGED exPromise
  /\ UNCHANGED <<pc, dlPromise, dlResponse, dlFault, schemaVars, dbOpen, dbDestroyed,
                 sourceVars, started, streamVars, batch, inFlight, issued,
                 inserted, failed, promise, unhandled>>

\* The tar stream emits 'finish' (line 43).
ExtractFinish ==
  /\ Running /\ exPromise = "pending" /\ exFault = "none"
  /\ exPromise' = "resolved"
  /\ UNCHANGED <<pc, dlPromise, dlResponse, dlFault, exFault, schemaVars, dbOpen,
                 dbDestroyed, sourceVars, loadVars>>

\* Line 150, the await.
AwaitExtractTarGz ==
  /\ Running /\ pc = "extract"
  /\ exPromise \in {"resolved", "rejected"}
  /\ pc' = IF exPromise = "resolved" THEN "createDatabase" ELSE "failed"
  /\ UNCHANGED <<stageVars, dbOpen, dbDestroyed, sourceVars, loadVars>>

\* Line 152: const db = createDatabase().
CreateDatabase ==
  /\ Running /\ pc = "createDatabase"
  /\ dbOpen' = TRUE
  /\ pc' = "setupTables"
  /\ UNCHANGED <<stageVars, dbDestroyed, sourceVars, loadVars>>

\* The step of setupTables after table number k is done with.
SetupAfter(k) == IF k < Len(TableOrder) THEN "hasTable" ELSE "returned"

\* Entry of setupTables (line 66): it starts at the first table.
SetupTablesCall ==
  /\ setupPc' = "hasTable"
  /\ setupTable' = 1
  /\ setupRuns' = setupRuns + 1
  /\ UNCHANGED <<tables, priorRows, createCalls>>

\* Line 153, the call of setupTables.
SetupTables ==
  /\ Running /\ pc = "setupTables" /\ setupPc = "idle"
  /\ SetupTablesCall
  /\ UNCHANGED <<pc, fetchVars, dbOpen, dbDestroyed, sourceVars, loadVars>>

\* A check of lines 68/84 that reports every table missing.
HasTableAlwaysMissing ==
  /\ Running /\ setupPc = "hasTable"
  /\ setupPc' = "createTable"
  /\ UNCHANGED <<pc, fetchVars, tables, priorRows, setupTable, setupRuns,
                 createCalls, dbOpen, dbDestroyed, sourceVars, loadVars>>

\* Lines 68 and 84: await db.schema.hasTable(...).  An existing table is
\* skipped, a missing one is created next.
HasTable ==
  /\ Running /\ setupPc = "hasTable"
  /\ IF TableOrder[setupTable] \in tables
     THEN /\ setupPc' = SetupAfter(setupTable)
          /\ setupTable' = IF setupTable < Len(TableOrder)
                           THEN setupTable + 1 ELSE setupTable
     ELSE /\ setupPc' = "createTable"
          /\ UNCHANGED setupTable
  /\ UNCHANGED <<pc, fetchVars, tables, priorRows, setupRuns, createCalls,
                 dbOpen, dbDestroyed, sourceVars, loadVars>>

\* Lines 69-80 and 85-101: await db.schema.createTable(...).  The storage
\* engine refuses to create a table that exists; a created table is empty.
CreateTable ==
  /\ Running /\ setupPc = "createTable"
  /\ createCalls' = [createCalls EXCEPT ![TableOrder[setupTable]] = @ + 1]
  /\ IF TableOrder[setupTable] \in tables
     THEN /\ setupPc' = "threw"
          /\ UNCHANGED <<tables, priorRows, setupTable>>
     ELSE /\ tables' = tables \cup {TableOrder[setupTable]}
          /\ priorRows' = [priorRows EXCEPT ![TableOrder[setupTable]] = 0]
          /\ setupPc' = SetupAfter(setupTable)
          /\ setupTable' = IF setupTable < Len(TableOrder)
                           THEN setupTable + 1 ELSE setupTable
  /\ UNCHANGED <<pc, fetchVars, setupRuns, dbOpen, dbDestroyed, sourceVars,
                 loadVars>>

\* The storage fails under a schema call (lines 68-101): setupTables throws.
SetupStorageError ==
  /\ Running /\ setupPc \in {"hasTable", "createTable"}
  /\ setupPc' = "threw"
  /\ UNCHANGED <<pc, fetchVars, tables, priorRows, setupTable, setupRuns,
                 createCalls, dbOpen, dbDestroyed, sourceVars, loadVars>>

\* Line 153, the await.
AwaitSetupTables ==
  /\ Running /\ pc = "setupTables"
  /\ setupPc \in {"returned", "threw"}
  /\ pc' = IF setupPc = "returned" THEN CallPc(1) ELSE "failed"
  /\ UNCHANGED <<stageVars, dbOpen, dbDestroyed, sourceVars, loadVars>>

\* Lines 155/156, the call: processCSV creates the array and the stream and
\* registers the callbacks; on('data') switches the stream to flowing mode.
ProcessCSV(l) ==
  /\ Running /\ pc = CallPc(l)
  /\ pc' = AwaitPc(l)
  /\ started' = [started EXCEPT ![l] = TRUE]
  /\ flowing' = [flowing EXCEPT ![l] = TRUE]
  /\ promise' = [promise EXCEPT ![l] = "pending"]
  /\ UNCHANGED <<stageVars, dbOpen, dbDestroyed, sourceVars, parsed,
                 delivered, ended,
                 endEmitted, errored, batch, inFlight, issued, inserted,
                 failed, unhandled, crashed>>

\* Lines 155/156 without the await.
AwaitProcessCSVNoAwait(l) ==
  /\ Running /\ pc = AwaitPc(l)
  /\ pc' = AfterPc(l)
  /\ UNCHANGED <<stageVars, dbOpen, dbDestroyed, sourceVars, loadVars>>

\* Lines 155/156 with the rejection caught and dropped.
AwaitProcessCSVSwallow(l) ==
  /\ Running /\ pc = AwaitPc(l)
  /\ promise[l] \in {"resolved", "rejected"}
  /\ pc' = AfterPc(l)
  /\ UNCHANGED <<stageVars, dbOpen, dbDestroyed, sourceVars, loadVars>>

\* Lines 155/156, the await: processDataDump goes on when the promise is
\* resolved and throws when it is rejected.
AwaitProcessCSV(l) ==
  /\ Running /\ pc = AwaitPc(l)
  /\ promise[l] \in {"resolved", "rejected"}
  /\ pc' = IF promise[l] = "resolved" THEN AfterPc(l) ELSE "failed"
  /\ UNCHANGED <<stageVars, dbOpen, dbDestroyed, sourceVars, loadVars>>

\* Line 158: await db.destroy().
DbDestroy ==
  /\ Running /\ pc = "destroy"
  /\ dbDestroyed' = TRUE
  /\ pc' = "done"
  /\ UNCHANGED <<stageVars, dbOpen, sourceVars, loadVars>>

----------------------------------------------------------------------------
Next ==
  \/ DownloadFile
  \/ DownloadRequestError
  \/ DownloadResponse
  \/ \E onRequest \in BOOLEAN : DownloadDrop(onRequest)
  \/ DownloadWriteError
  \/ DownloadFinish
  \/ AwaitDownloadFile
  \/ ExtractTarGz
  \/ \E stage \in ExtractStages : ExtractStageError(stage)
  \/ ExtractFinish
  \/ AwaitExtractTarGz
  \/ CreateDatabase
  \/ SetupTables
  \/ HasTable
  \/ CreateTable
  \/ SetupStorageError
  \/ AwaitSetupTables
  \/ \E l \in Loads : ProcessCSV(l)
  \/ \E l \in Loads : AwaitProcessCSV(l)
  \/ DbDestroy
  \/ \E l \in Loads : ParserPush(l)
  \/ \E l \in Loads : ParserEnd(l)
  \/ \E l \in Loads : ParserError(l)
  \/ \E l \in Loads : FileReadError(l)
  \/ \E l \in Loads : EmitData(l)
  \/ \E l \in Loads : EmitEnd(l)
  \/ \E i \in inFlight : InsertBatchResolve(i)
  \/ \E i \in inFlight : InsertBatchReject(i)
  \/ UnhandledRejectionExit

Spec == Init /\ [][Next]_vars

\* The run under the scheduling the event loop gives: a stream that can
\* deliver an event does, the source ends or fails, and a bulk insert that
\* was called settles.  Nothing obliges the runtime to end the process.
Fairness ==
  /\ \A l \in Loads :
       /\ WF_vars(ParserPush(l) \/ ParserEnd(l) \/ ParserError(l)
                  \/ FileReadError(l))
       /\ WF_vars(EmitData(l))
       /\ WF_vars(EmitEnd(l))
  /\ WF_vars(\E i \in inFlight : InsertBatchResolve(i) \/ InsertBatchReject(i))

FairSpec == Spec /\ Fairness

\* setupTables invoked twice in sequence on a storage target whose tables
\* may exist and hold rows.
SetupInit ==
  /\ pc = "setupTables"
  /\ dlPromise = "resolved"
  /\ dlResponse = TRUE
  /\ dlFault = "none"
  /\ exPromise = "resolved"
  /\ exFault = "none"
  /\ tables \in SUBSET Tables
  /\ priorRows \in [Tables -> 0..MaxRows]
  /\ \A t \in Tables \ tables : priorRows[t] = 0
  /\ setupPc = "idle"
  /\ setupTable = 1
  /\ setupRuns = 0
  /\ createCalls = [t \in Tables |-> 0]
  /\ dbOpen = TRUE
  /\ dbDestroyed = FALSE
  /\ batchSize = 1
  /\ nRows = [l \in Loads |-> 0]
  /\ malformed = [l \in Loads |-> FALSE]
  /\ started = [l \in Loads |-> FALSE]
  /\ parsed = [l \in Loads |-> 0]
  /\ delivered = [l \in Loads |-> 0]
  /\ ended = [l \in Loads |-> FALSE]
  /\ endEmitted = [l \in Loads |-> FALSE]
  /\ errored = [l \in Loads |-> FALSE]
  /\ flowing = [l \in Loads |-> FALSE]
  /\ batch = [l \in Loads |-> <<>>]
  /\ inFlight = {}
  /\ issued = [l \in Loads |-> 0]
  /\ inserted = [l \in Loads |-> <<>>]
  /\ failed = [l \in Loads |-> 0]
  /\ promise = [l \in Loads |-> "none"]
  /\ unhandled = FALSE
  /\ crashed = FALSE

\* The second invocation of setupTables, after the first returned.
SetupTablesAgain ==
  /\ Running /\ setupPc = "returned" /\ setupRuns < 2
  /\ SetupTablesCall
  /\ UNCHANGED <<pc, fetchVars, dbOpen, dbDestroyed, sourceVars, loadVars>>

SetupNext ==
  \/ SetupTables
  \/ HasTable
  \/ CreateTable
  \/ SetupTablesAgain

SetupSpec == SetupInit /\ [][SetupNext]_vars

TypeOK ==
  /\ pc \in {"download", "extract", "createDatabase", "setupTables",
             "processCSV1", "await1", "processCSV2", "await2", "destroy",
             "done", "failed"}
  /\ batchSize \in 1..MaxBatch
  /\ \A l \in Loads :
       /\ delivered[l] <= parsed[l] /\ parsed[l] <= nRows[l]
       /\ promise[l] \in {"none", "pending", "resolved", "rejected"}
       /\ Len(inserted[l]) + failed[l] + Cardinality(InFlightOf(l)) = issued[l]

----------------------------------------------------------------------------
\* Properties.

IsPrefix(s, t) == Len(s) <= Len(t) /\ SubSeq(t, 1, Len(s)) = s

Range(s) == {s[k] : k \in 1..Len(s)}

\* The rows persisted for load l, in the order they were written.
Persisted(l) == Flatten(inserted[l])

\* C1: no 'data' event reaches the accumulator of a load between the call of
\* a bulk insert of that load and the settling of that insert.
C1_NoDataWhileInsertOutstanding ==
  [][\A l \in Loads : InFlightOf(l) # {} => delivered'[l] = delivered[l]]_vars

\* Batch 2 is being inserted while the parser already holds a further row.
C1_Witness ==
  \E i \in inFlight :
    /\ i.by = "data" /\ i.seq = 2
    /\ delivered[i.load] < parsed[i.load]

\* C2: the accumulator never holds more than batchSize records.
C2_AccumulatorBounded ==
  \A l \in Loads : Len(batch[l]) <= batchSize

\* A full accumulator of two records, with a further row waiting.
C2_Witness ==
  \E l \in Loads :
    /\ batchSize = 2 /\ Len(batch[l]) = 2
    /\ delivered[l] < parsed[l]

C6_InsertFailureRejects ==
  \A l \in Loads : failed[l] > 0 => promise[l] = "rejected"

\* C7: once the connection is open, processDataDump does not exit without
\* having called db.destroy.
C7_ConnectionClosedOnExit ==
  (dbOpen /\ pc \in {"done", "failed"}) => dbDestroyed

\* C8: once bulk insert k of a load has failed, the batches before it are
\* persisted and stay so, and no further record is delivered.
C8_FailureKeepsEarlierStopsLater ==
  /\ [](\A l \in Loads :
          failed[l] > 0 =>
            Persisted(l) = [j \in 1..((issued[l] - 1) * batchSize) |-> j])
  /\ [][\A l \in Loads :
          failed[l] > 0 =>
            /\ delivered'[l] = delivered[l]
            /\ IsPrefix(inserted[l], inserted'[l])]_vars

\* Batch 2 of 3 failed: batch 1 is persisted, the row of batch 3 is parsed
\* and not delivered.
C8_Witness ==
  \E l \in Loads :
    /\ batchSize = 1 /\ nRows[l] = 3
    /\ failed[l] = 1 /\ inserted[l] = <<(<<1>>)>>
    /\ parsed[l] = 3 /\ delivered[l] = 2

\* The records of the accumulator for which no bulk insert is outstanding.
Unflushed(l) ==
  {r \in Range(batch[l]) : \A i \in InFlightOf(l) : r \notin Range(i.rows)}

\* C9: once the parser has failed on a malformed row, the promise of
\* processCSV is rejected, no unflushed record is persisted and no bulk insert
\* is called any more, and what was persisted stays persisted.
C9_ParseErrorFailsLoad ==
  /\ [](\A l \in Loads :
          errored[l] =>
            /\ promise[l] = "rejected"
            /\ Unflushed(l) \cap Range(Persisted(l)) = {})
  /\ [][\A l \in Loads :
          errored[l] =>
            /\ issued'[l] = issued[l]
            /\ IsPrefix(inserted[l], inserted'[l])]_vars

\* The parser failed with one batch persisted and one record unflushed.
C9_Witness ==
  \E l \in Loads :
    /\ errored[l] /\ promise[l] = "rejected"
    /\ Len(inserted[l]) = 1 /\ InFlightOf(l) = {}
    /\ Unflushed(l) = {3}

ExtractStarted == exPromise # "none"
SetupStarted   == setupRuns > 0
LoadStarted(l) == started[l]

\* A stage of processDataDump has failed, reported or not.
DownloadFailed == dlFault # "none"
ExtractFailed  == exFault # "none"
SetupFailed    == setupPc = "threw"
LoadFailed(l)  == promise[l] = "rejected" \/ errored[l] \/ failed[l] > 0

LoadCompleted(l) ==
  /\ promise[l] = "resolved"
  /\ InFlightOf(l) = {}
  /\ Len(inserted[l]) = issued[l]

C13_SetupIdempotent ==
  /\ [](/\ setupPc # "threw"
        /\ setupPc = "returned" => tables = Tables
        /\ \A t \in Tables : createCalls[t] <= 1)
  /\ [][/\ \A t \in Tables :
             /\ createCalls'[t] # createCalls[t] => t \notin tables
             /\ t \in tables => (t \in tables' /\ priorRows'[t] = priorRows[t])
        /\ setupRuns = 2 =>
             /\ tables' = tables
             /\ priorRows' = priorRows
             /\ createCalls' = createCalls]_vars

\* The second invocation returned on a target that was empty at first.
C13_Witness ==
  /\ setupRuns = 2 /\ setupPc = "returned"
  /\ \A t \in Tables : createCalls[t] = 1

\* C14: a run on a source without data rows calls no bulk insert, is never
\* rejected, and is resolved by the 'end' event.
C14_EmptySource ==
  \A l \in Loads :
    (nRows[l] = 0 /\ ~malformed[l]) =>
      /\ issued[l] = 0
      /\ promise[l] # "rejected"
      /\ endEmitted[l] => promise[l] = "resolved"

\* A run on an empty source has completed.
C14_Witness ==
  \E l \in Loads :
    /\ nRows[l] = 0 /\ ~malformed[l]
    /\ endEmitted[l] /\ promise[l] = "resolved"

\* C15: whenever the download has met a failure (no connection, a drop in
\* mid-transfer, an unwritable destination), the promise of downloadFile is
\* rejected.
C15_DownloadFailureRejects ==
  DownloadFailed => dlPromise = "rejected"

\* C16: whenever a stage of the pipeline of extractTarGz has failed, the
\* promise of extractTarGz is rejected.
C16_ExtractFailureRejects ==
  ExtractFailed => exPromise = "rejected"

\* C17: every run of processCSV eventually settles its promise, and a paused
\* source is eventually resumed.
C17_EventuallySettles ==
  \A l \in Loads :
    /\ (promise[l] = "pending") ~> (promise[l] \in {"resolved", "rejected"})
    /\ (started[l] /\ ~flowing[l]) ~> flowing[l]

\* C18: when the promise of processCSV is rejected no bulk insert of that
\* run is outstanding, and none is called or completed afterwards.
C18_QuiescentAtFailure ==
  /\ [](\A l \in Loads : promise[l] = "rejected" => InFlightOf(l) = {})
  /\ [][\A l \in Loads :
          promise[l] = "rejected" =>
            /\ issued'[l] = issued[l]
            /\ inserted'[l] = inserted[l]]_vars

\* The rows of the k-th bulk insert of a source of R rows with capacity N.
BatchRows(k, R, N) ==
  [j \in 1..((IF k * N <= R THEN k * N ELSE R) - (k - 1) * N) |->
     (k - 1) * N + j]

====
